---- MODULE Spec2Model ----
(***************************************************************************)
(* A model of the OpenAPI document object (Spec, PathItem, Operation,      *)
(* Server) of actix-web-openapi and of the operations that read it:        *)
(* Spec::validate_version, Spec::to_client_request,                        *)
(* PathItem::to_client_request / apply_operation,                          *)
(* Server::to_client_request and Operation::to_client_request, and of the  *)
(* resolver of ObjectOrReference against the components of a document.     *)
(*                                                                         *)
(* Spec runs the methods of Spec and PathItem over the generated           *)
(* documents, SpecCalls adds the methods of Server and Operation on a      *)
(* smaller family of documents, SpecResolve runs the resolver.             *)
(*                                                                         *)
(* Strings that the code parses are sequences: the `openapi` field is a    *)
(* sequence of characters, a server `url` a sequence of lexical tokens.    *)
(* Option<T> is a sequence of length at most one.                          *)
(***************************************************************************)
EXTENDS Integers, Sequences, FiniteSets, TLC

VARIABLES
    doc,              \* the Spec value the methods are called on (self)
    version_result,   \* what the last Spec::validate_version call returned
    client_requests,  \* what the last Spec::to_client_request call returned
    previous_requests,\* what the Spec::to_client_request call before the last returned
    builders,         \* the last PathItem::to_client_request call and its result
    last_builder,     \* the last Server:: or Operation::to_client_request call: the
                      \* url of the server, the builder given and the builder returned
    resolution,       \* the reference resolution under way, and the one before it
    uri_braces        \* what the crates of the build make of { and } in a URI path

vars == <<doc, version_result, client_requests, previous_requests, builders,
          last_builder, resolution, uri_braces>>

(***************************************************************************)
(* Bounds of the model                                                     *)
(***************************************************************************)
MaxServers == 2     \* longest server list of a document or of a call
MaxOps == 2         \* most method slots declared on a generated path item
MaxComponents == 2  \* most named components of one kind

(***************************************************************************)
(* Option<T>                                                               *)
(***************************************************************************)
None == <<>>
Some(x) == <<x>>
IsSome(o) == o # <<>>
IsNone(o) == o = <<>>
Unwrap(o) == o[1]

(***************************************************************************)
(* Sequence helpers                                                        *)
(***************************************************************************)
\* index of the first occurrence of c in s, 0 when there is none
IndexOf(s, c) ==
    IF \E i \in 1..Len(s) : s[i] = c
    THEN CHOOSE i \in 1..Len(s) : s[i] = c /\ \A j \in 1..(i - 1) : s[j] # c
    ELSE 0

RECURSIVE SplitOn(_, _)
SplitOn(s, c) ==
    LET i == IndexOf(s, c)
    IN  IF i = 0 THEN <<s>>
        ELSE <<SubSeq(s, 1, i - 1)>> \o SplitOn(SubSeq(s, i + 1, Len(s)), c)

RECURSIVE Flatten(_)
Flatten(ss) == IF ss = <<>> THEN <<>> ELSE Head(ss) \o Flatten(Tail(ss))

RECURSIVE SumSeq(_)
SumSeq(ns) == IF ns = <<>> THEN 0 ELSE Head(ns) + SumSeq(Tail(ns))

SeqsUpTo(S, n) == UNION {[1..k -> S] : k \in 0..n}

(***************************************************************************)
(* semver::Version::parse, as called at spec.rs:21                         *)
(*   <numeric> "." <numeric> "." <numeric> [ "-" <pre> ]                   *)
(* numeric identifiers have no leading zero; nothing may follow.           *)
(***************************************************************************)
DigitChars == <<"0", "1", "2", "3", "4", "5", "6", "7", "8", "9">>
IsDigit(c) == \E i \in 1..Len(DigitChars) : DigitChars[i] = c
DigitVal(c) == (CHOOSE i \in 1..Len(DigitChars) : DigitChars[i] = c) - 1
IsAlnum(c) == IsDigit(c) \/ c \in {"p", "r", "e", "c", "v"}

IsNumericIdentifier(p) ==
    /\ Len(p) > 0
    /\ \A i \in 1..Len(p) : IsDigit(p[i])
    /\ (Len(p) > 1 => p[1] # "0")

RECURSIVE NumericValue(_)
NumericValue(p) ==
    IF p = <<>> THEN 0
    ELSE 10 * NumericValue(SubSeq(p, 1, Len(p) - 1)) + DigitVal(p[Len(p)])

IsPreIdentifier(p) == Len(p) > 0 /\ \A i \in 1..Len(p) : IsAlnum(p[i])

VersionParse(s) ==
    LET dash == IndexOf(s, "-")
        core == IF dash = 0 THEN s ELSE SubSeq(s, 1, dash - 1)
        pre == IF dash = 0 THEN <<>> ELSE SubSeq(s, dash + 1, Len(s))
        parts == SplitOn(core, ".")
        preparts == SplitOn(pre, ".")
    IN  IF /\ Len(parts) = 3
           /\ \A i \in 1..3 : IsNumericIdentifier(parts[i])
           /\ (dash # 0 => \A i \in 1..Len(preparts) : IsPreIdentifier(preparts[i]))
        THEN [ok |-> TRUE,
              version |-> [major |-> NumericValue(parts[1]),
                           minor |-> NumericValue(parts[2]),
                           patch |-> NumericValue(parts[3]),
                           pre |-> pre]]
        ELSE [ok |-> FALSE,
              version |-> [major |-> 0, minor |-> 0, patch |-> 0, pre |-> <<>>]]

(***************************************************************************)
(* semver::VersionReq::matches, as called at spec.rs:23.  A requirement is *)
(* a sequence of predicates; a version matches when every predicate        *)
(* matches and, for a pre-release version, some predicate names the same   *)
(* major.minor.patch with a pre-release tag of its own.                    *)
(***************************************************************************)
MatchesExact(p, v) ==
    /\ p.major = v.major
    /\ p.minor = v.minor
    /\ p.patch = v.patch
    /\ p.pre = v.pre

IsGreater(p, v) ==
    IF p.major # v.major THEN v.major > p.major
    ELSE IF p.minor # v.minor THEN v.minor > p.minor
    ELSE IF p.patch # v.patch THEN v.patch > p.patch
    ELSE p.pre # <<>> /\ v.pre = <<>>

PredicateMatches(p, v) ==
    CASE p.op = ">=" -> MatchesExact(p, v) \/ IsGreater(p, v)
      [] p.op = ">"  -> IsGreater(p, v)
      [] p.op = "<"  -> ~MatchesExact(p, v) /\ ~IsGreater(p, v)
      [] p.op = "<=" -> MatchesExact(p, v) \/ ~IsGreater(p, v)
      [] OTHER       -> MatchesExact(p, v)

PreTagIsCompatible(p, v) ==
    \/ v.pre = <<>>
    \/ /\ p.major = v.major
       /\ p.minor = v.minor
       /\ p.patch = v.patch
       /\ p.pre # <<>>

VersionReqMatches(req, v) ==
    /\ \A i \in 1..Len(req) : PredicateMatches(req[i], v)
    /\ \E i \in 1..Len(req) : PreTagIsCompatible(req[i], v)

\* crate::MINIMUM_OPENAPI30_VERSION, already parsed: >=3.0.0, <4.0.0
MINIMUM_OPENAPI30_VERSION ==
    << [op |-> ">=", major |-> 3, minor |-> 0, patch |-> 0, pre |-> <<>>],
       [op |-> "<",  major |-> 4, minor |-> 0, patch |-> 0, pre |-> <<>>] >>

(***************************************************************************)
(* Result values.  Every result is a record with a `tag`; "Panic" stands   *)
(* for the thread unwinding out of the call.                               *)
(***************************************************************************)
NoVersion == [major |-> 0, minor |-> 0, patch |-> 0, pre |-> <<>>]
NotCalled == [tag |-> "NotCalled", error |-> "", version |-> NoVersion, value |-> <<>>]
OkVersion(v) == [tag |-> "Ok", error |-> "", version |-> v, value |-> <<>>]
OkValue(x) == [tag |-> "Ok", error |-> "", version |-> NoVersion, value |-> x]
ErrSemVer == [tag |-> "Err", error |-> "SemVerError", version |-> NoVersion, value |-> <<>>]
ErrUnsupported(v) ==
    [tag |-> "Err", error |-> "UnsupportedSpecFileVersion", version |-> v, value |-> <<>>]
Panic(why) == [tag |-> "Panic", error |-> why, version |-> NoVersion, value |-> <<>>]

(***************************************************************************)
(* Spec::validate_version                                                  *)
(***************************************************************************)
\* variants of validate_version with one slip each, which C7-C9 tell from the code
validate_version_lenient(self) ==
    LET parsed == VersionParse(self.openapi)
    IN  IF ~parsed.ok THEN ErrSemVer
        ELSE OkVersion(parsed.version)

validate_version_panics(self) ==
    LET parsed == VersionParse(self.openapi)
    IN  IF ~parsed.ok THEN Panic("unwrap on Err")
        ELSE IF VersionReqMatches(MINIMUM_OPENAPI30_VERSION, parsed.version)
        THEN OkVersion(parsed.version)
        ELSE ErrUnsupported(parsed.version)

validate_version_inverted(self) ==
    LET parsed == VersionParse(self.openapi)
    IN  IF ~parsed.ok THEN ErrSemVer
        ELSE IF VersionReqMatches(MINIMUM_OPENAPI30_VERSION, parsed.version)
        THEN ErrUnsupported(parsed.version)
        ELSE OkVersion(parsed.version)

validate_version(self) ==
    LET parsed == VersionParse(self.openapi)                               \* :21
    IN  IF ~parsed.ok THEN ErrSemVer                                       \* :21 `?`
        ELSE IF VersionReqMatches(MINIMUM_OPENAPI30_VERSION, parsed.version) \* :22-23
        THEN OkVersion(parsed.version)                                     \* :24
        ELSE ErrUnsupported(parsed.version)                                \* :26

(***************************************************************************)
(* http::Uri of a server url, as ClientRequestBuilder::uri parses it       *)
(* (path.rs:146, path.rs:195, server.rs:47).  A url is a sequence of       *)
(* tokens: <<"http", "://", "localhost", ":", "8000", "/", "v1">>.         *)
(* An empty url and a url with a space in it are no URI.  A {placeholder}  *)
(* is one token; it is no part of an authority.  What becomes of it in the *)
(* path of an absolute url depends on the crates the build links: the      *)
(* builder percent-encodes it (it normalizes the url with the url crate    *)
(* first), or http::Uri keeps it as it is, or http::Uri rejects the url.   *)
(***************************************************************************)
Placeholders == {"{basePath}", "{version}", "{petId}"}
HasPlaceholder(url) == \E i \in 1..Len(url) : url[i] \in Placeholders

PercentEncoded(tokens) ==
    [i \in 1..Len(tokens) |->
        CASE tokens[i] = "{basePath}" -> "%7BbasePath%7D"
          [] tokens[i] = "{version}" -> "%7Bversion%7D"
          [] tokens[i] = "{petId}" -> "%7BpetId%7D"
          [] OTHER -> tokens[i]]

UriError == [ok |-> FALSE, scheme |-> None, host |-> None, port |-> None, path |-> <<>>]

\* a parse that loses the port
ParseUri_portless(url) ==
    IF url = <<>> \/ \E i \in 1..Len(url) : url[i] = " " THEN UriError
    ELSE IF HasPlaceholder(url) /\ uri_braces = "rejected" THEN UriError
    ELSE IF url[1] = "/"
    THEN [ok |-> TRUE, scheme |-> None, host |-> None, port |-> None, path |-> url]
    ELSE IF Len(url) >= 3 /\ url[1] \in {"http", "https"} /\ url[2] = "://"
    THEN LET rest == SubSeq(url, 3, Len(url))
             slash == IndexOf(rest, "/")
             authority == IF slash = 0 THEN rest ELSE SubSeq(rest, 1, slash - 1)
             raw == IF slash = 0 THEN <<"/">> ELSE SubSeq(rest, slash, Len(rest))
             path == IF uri_braces = "encoded" THEN PercentEncoded(raw) ELSE raw
         IN  IF HasPlaceholder(authority) THEN UriError
             ELSE IF Len(authority) = 1 /\ authority[1] # ":"
             THEN [ok |-> TRUE, scheme |-> Some(url[1]), host |-> Some(authority[1]),
                   port |-> None, path |-> path]
             ELSE IF Len(authority) = 3 /\ authority[2] = ":"
             THEN [ok |-> TRUE, scheme |-> Some(url[1]), host |-> Some(authority[1]),
                   port |-> None, path |-> path]
             ELSE UriError
    ELSE UriError

ParseUri(url) ==
    IF url = <<>> \/ \E i \in 1..Len(url) : url[i] = " " THEN UriError
    ELSE IF HasPlaceholder(url) /\ uri_braces = "rejected" THEN UriError
    ELSE IF url[1] = "/"
    THEN [ok |-> TRUE, scheme |-> None, host |-> None, port |-> None, path |-> url]
    ELSE IF Len(url) >= 3 /\ url[1] \in {"http", "https"} /\ url[2] = "://"
    THEN LET rest == SubSeq(url, 3, Len(url))
             slash == IndexOf(rest, "/")
             authority == IF slash = 0 THEN rest ELSE SubSeq(rest, 1, slash - 1)
             raw == IF slash = 0 THEN <<"/">> ELSE SubSeq(rest, slash, Len(rest))
             path == IF uri_braces = "encoded" THEN PercentEncoded(raw) ELSE raw
         IN  IF HasPlaceholder(authority) THEN UriError
             ELSE IF Len(authority) = 1 /\ authority[1] # ":"
             THEN [ok |-> TRUE, scheme |-> Some(url[1]), host |-> Some(authority[1]),
                   port |-> None, path |-> path]
             ELSE IF Len(authority) = 3 /\ authority[2] = ":"
             THEN [ok |-> TRUE, scheme |-> Some(url[1]), host |-> Some(authority[1]),
                   port |-> Some(authority[3]), path |-> path]
             ELSE UriError
    ELSE UriError

(***************************************************************************)
(* actix_web::client::ClientRequestBuilder: the method, URI, header names   *)
(* and body under construction, and whether a setter has failed.  finish() *)
(* returns the request, or the error a setter left behind.                 *)
(***************************************************************************)
ClientRequest_build ==
    [method |-> "GET", uri |-> ParseUri(<<"/">>), headers |-> <<>>, body |-> "Empty",
     err |-> FALSE]

\* a setter changes nothing once the builder carries an error
builder_uri(builder, url) ==
    LET parsed == ParseUri(url)
    IN  IF ~parsed.ok THEN [builder EXCEPT !.err = TRUE]
        ELSE IF builder.err THEN builder
        ELSE [builder EXCEPT !.uri = parsed]

builder_method(builder, method) ==
    IF builder.err THEN builder ELSE [builder EXCEPT !.method = method]

builder_finish(builder) ==
    IF builder.err
    THEN [ok |-> FALSE,
          request |-> [method |-> builder.method, uri |-> UriError,
                       headers |-> builder.headers, body |-> builder.body]]
    ELSE [ok |-> TRUE,
          request |-> [method |-> builder.method, uri |-> builder.uri,
                       headers |-> builder.headers, body |-> builder.body]]

(***************************************************************************)
(* Server::to_client_request, Operation::to_client_request                 *)
(***************************************************************************)
\* a call that sets the url on a fresh builder instead of the one it was given
Server_to_client_request_resetting(self, builder) ==
    builder_uri(ClientRequest_build, self.url)

Server_to_client_request(self, builder) == builder_uri(builder, self.url)

\* a call that hands back a fresh builder instead of the one it was given
Operation_to_client_request_fresh(self, builder) == ClientRequest_build

Operation_to_client_request(self, builder) == builder

(***************************************************************************)
(* PathItem::apply_operation, PathItem::to_client_request                  *)
(***************************************************************************)
Methods == <<"GET", "PUT", "POST", "DELETE", "OPTIONS", "HEAD", "PATCH", "TRACE">>
MethodSet == {Methods[i] : i \in 1..Len(Methods)}

\* the slot of a path item for a method
Slot(item, m) ==
    CASE m = "GET" -> item.get
      [] m = "PUT" -> item.put
      [] m = "POST" -> item.post
      [] m = "DELETE" -> item.delete
      [] m = "OPTIONS" -> item.options
      [] m = "HEAD" -> item.head
      [] m = "PATCH" -> item.patch
      [] m = "TRACE" -> item.trace

DeclaredMethods(item) == {m \in MethodSet : IsSome(Slot(item, m))}

apply_operation(self, method, servers) ==
    [i \in 1..Len(servers) |->
        builder_method(builder_uri(ClientRequest_build, servers[i].url), method)]

\* a conversion that stops after the GET slot
PathItem_to_client_request_get_only(self, servers) ==
    IF IsSome(self.get) THEN apply_operation(self, "GET", servers) ELSE <<>>

\* a conversion that takes the GET slot as declared
PathItem_to_client_request_always_get(self, servers) ==
    LET lst_methods ==
            <<"GET">>
            \o (IF IsSome(self.put) THEN <<"PUT">> ELSE <<>>)
            \o (IF IsSome(self.post) THEN <<"POST">> ELSE <<>>)
            \o (IF IsSome(self.delete) THEN <<"DELETE">> ELSE <<>>)
            \o (IF IsSome(self.options) THEN <<"OPTIONS">> ELSE <<>>)
            \o (IF IsSome(self.head) THEN <<"HEAD">> ELSE <<>>)
            \o (IF IsSome(self.patch) THEN <<"PATCH">> ELSE <<>>)
            \o (IF IsSome(self.trace) THEN <<"TRACE">> ELSE <<>>)
    IN  Flatten([i \in 1..Len(lst_methods) |->
               [j \in 1..Len(servers) |->
                   builder_method(builder_uri(ClientRequest_build, servers[j].url),
                                  lst_methods[i])]])

PathItem_to_client_request(self, servers) ==
    LET get_builders ==
            IF IsSome(self.get) THEN apply_operation(self, "GET", servers) ELSE <<>>
        lst_methods ==
            (IF IsSome(self.put) THEN <<"PUT">> ELSE <<>>)
            \o (IF IsSome(self.post) THEN <<"POST">> ELSE <<>>)
            \o (IF IsSome(self.delete) THEN <<"DELETE">> ELSE <<>>)
            \o (IF IsSome(self.options) THEN <<"OPTIONS">> ELSE <<>>)
            \o (IF IsSome(self.head) THEN <<"HEAD">> ELSE <<>>)
            \o (IF IsSome(self.patch) THEN <<"PATCH">> ELSE <<>>)
            \o (IF IsSome(self.trace) THEN <<"TRACE">> ELSE <<>>)
    IN  get_builders
        \o Flatten([i \in 1..Len(lst_methods) |->
               [j \in 1..Len(servers) |->
                   builder_method(builder_uri(ClientRequest_build, servers[j].url),
                                  lst_methods[i])]])

\* whether following the schema references from `name` comes back to a schema
\* already passed
RECURSIVE RefersInCycle(_, _, _)
RefersInCycle(schemas, name, passed) ==
    IF name \in passed THEN TRUE
    ELSE IF name \notin DOMAIN schemas THEN FALSE
    ELSE IF schemas[name].tag # "Reference" THEN FALSE
    ELSE IF schemas[name].pointer[3] # "schemas" THEN FALSE
    ELSE RefersInCycle(schemas, schemas[name].pointer[4], passed \cup {name})

HasSchemaCycle(d) ==
    /\ IsSome(d.components)
    /\ "schemas" \in DOMAIN Unwrap(d.components)
    /\ \E name \in DOMAIN Unwrap(d.components)["schemas"] :
           RefersInCycle(Unwrap(d.components)["schemas"], name, {})

\* a synthesis that expands every schema reference before it builds requests
Spec_to_client_request_expanding(self) ==
    IF HasSchemaCycle(self) THEN Panic("stack overflow")
    ELSE IF IsNone(self.servers) THEN Panic("unwrap on None")
    ELSE LET servers == Unwrap(self.servers)
             finished == [i \in 1..Len(servers) |->
                 builder_finish(Server_to_client_request(servers[i], ClientRequest_build))]
         IN  IF \E i \in 1..Len(servers) : ~finished[i].ok
             THEN Panic("Could not convert server to client request!")
             ELSE OkValue([i \in 1..Len(servers) |-> finished[i].request])

(***************************************************************************)
(* Spec::to_client_request                                                 *)
(***************************************************************************)
\* a conversion that pushes a request for every path inside the loop over paths
Spec_to_client_request_per_path(self) ==
    IF IsNone(self.servers) THEN Panic("unwrap on None")
    ELSE LET servers == Unwrap(self.servers)
             finished == [i \in 1..Len(servers) |->
                 builder_finish(Server_to_client_request(servers[i], ClientRequest_build))]
         IN  IF \E i \in 1..Len(servers) : ~finished[i].ok
             THEN Panic("Could not convert server to client request!")
             ELSE OkValue(Flatten([i \in 1..Len(servers) |->
                              [k \in 1..Cardinality(DOMAIN self.paths) |->
                                  finished[i].request]]))

Spec_to_client_request(self) ==
    IF IsNone(self.servers) THEN Panic("unwrap on None")                   \* :34
    ELSE LET servers == Unwrap(self.servers)
             finished == [i \in 1..Len(servers) |->
                 builder_finish(Server_to_client_request(servers[i], ClientRequest_build))]
         IN  IF \E i \in 1..Len(servers) : ~finished[i].ok
             THEN Panic("Could not convert server to client request!")     \* :49
             ELSE OkValue([i \in 1..Len(servers) |-> finished[i].request]) \* :47, :53

(***************************************************************************)
(* components::ObjectOrReference, components::Components and the reference *)
(* resolver.  A pointer "#/components/<kind>/<name>" is the sequence of    *)
(* its "/"-separated segments; Components maps a kind to a map from names  *)
(* to components.  The resolver follows a chain of references one lookup   *)
(* at a time, remembering the pointers it has followed.                    *)
(***************************************************************************)
NoObject == ""
Inline(x) == [tag |-> "Inline", object |-> x, pointer |-> <<>>]
Reference(pointer) == [tag |-> "Reference", object |-> NoObject, pointer |-> pointer]
Pointer(kind, name) == <<"#", "components", kind, name>>

NoResult == [tag |-> "None", object |-> NoObject, pointers |-> <<>>]
Resolved(x) == [tag |-> "Ok", object |-> x, pointers |-> <<>>]
UnresolvedReference(pointer) ==
    [tag |-> "UnresolvedReference", object |-> NoObject, pointers |-> <<pointer>>]
CyclicReference(pointer_chain) ==
    [tag |-> "CyclicReference", object |-> NoObject, pointers |-> pointer_chain]

\* a lookup that takes whichever component of the kind comes first
components_get_by_kind(components, pointer) ==
    IF Len(pointer) = 4 /\ pointer[1] = "#" /\ pointer[2] = "components"
       /\ pointer[3] \in DOMAIN components
       /\ pointer[4] \in DOMAIN components[pointer[3]]
    THEN Some(components[pointer[3]][CHOOSE n \in DOMAIN components[pointer[3]] : TRUE])
    ELSE None

\* the lookup of <kind>/<name>
components_get(components, pointer) ==
    IF Len(pointer) = 4 /\ pointer[1] = "#" /\ pointer[2] = "components"
       /\ pointer[3] \in DOMAIN components
       /\ pointer[4] \in DOMAIN components[pointer[3]]
    THEN Some(components[pointer[3]][pointer[4]])
    ELSE None

NoLast == [input |-> Inline(NoObject), result |-> NoResult]
NoResolution ==
    [pc |-> "idle", input |-> Inline(NoObject), current |-> Inline(NoObject),
     chain |-> <<>>, lookups |-> 0, result |-> NoResult, last |-> NoLast]

resolve_start(r, input) ==
    [pc |-> "running", input |-> input, current |-> input, chain |-> <<>>,
     lookups |-> 0, result |-> NoResult,
     last |-> IF r.pc = "done" THEN [input |-> r.input, result |-> r.result]
              ELSE r.last]

\* a resolver that does not remember the pointers it has followed
resolve_step_forgetful(components, r) ==
    IF r.current.tag = "Inline"
    THEN [r EXCEPT !.pc = "done", !.result = Resolved(r.current.object)]
    ELSE LET pointer == r.current.pointer
             target == components_get(components, pointer)
         IN  IF IsNone(target)
             THEN [r EXCEPT !.pc = "done", !.result = UnresolvedReference(pointer)]
             ELSE [r EXCEPT !.current = Unwrap(target)]

\* a resolver that answers a missing target with a default object
resolve_step_defaulting(components, r) ==
    IF r.current.tag = "Inline"
    THEN [r EXCEPT !.pc = "done", !.result = Resolved(r.current.object)]
    ELSE LET pointer == r.current.pointer
             target == components_get(components, pointer)
         IN  IF \E i \in 1..Len(r.chain) : r.chain[i] = pointer
             THEN [r EXCEPT !.pc = "done",
                            !.result = CyclicReference(Append(r.chain, pointer))]
             ELSE IF IsNone(target)
             THEN [r EXCEPT !.pc = "done", !.result = Resolved(NoObject)]
             ELSE [r EXCEPT !.current = Unwrap(target),
                            !.chain = Append(r.chain, pointer),
                            !.lookups = r.lookups + 1]

\* one iteration of resolve: return the inline value; or fail on a pointer
\* that repeats or whose target is absent; or look the pointer up and go on
resolve_step(components, r) ==
    IF r.current.tag = "Inline"
    THEN [r EXCEPT !.pc = "done", !.result = Resolved(r.current.object)]
    ELSE LET pointer == r.current.pointer
             target == components_get(components, pointer)
         IN  IF \E i \in 1..Len(r.chain) : r.chain[i] = pointer
             THEN [r EXCEPT !.pc = "done",
                            !.result = CyclicReference(Append(r.chain, pointer))]
             ELSE IF IsNone(target)
             THEN [r EXCEPT !.pc = "done", !.result = UnresolvedReference(pointer)]
             ELSE [r EXCEPT !.current = Unwrap(target),
                            !.chain = Append(r.chain, pointer),
                            !.lookups = r.lookups + 1]

\* Option<Components> of a document as the map the resolver looks into
ComponentsOf(d) == IF IsSome(d.components) THEN Unwrap(d.components) ELSE <<>>

(***************************************************************************)
(* The documents the model is run on                                       *)
(***************************************************************************)
Server(url) == [url |-> url, description |-> None, variables |-> None]

LocalServer == Server(<<"http", "://", "localhost", ":", "8000", "/", "v1">>)
PetstoreServer == Server(<<"http", "://", "petstore.swagger.io", "/", "v1">>)
AltServer == Server(<<"https", "://", "alt.example.com">>)
OpServer == Server(<<"https", "://", "op.example.com", "/", "v2">>)
EmptyUrlServer == Server(<<>>)

\* servers whose url has a placeholder: one with a default for it, one without
ServerVariable(default) ==
    [default |-> default, substitutions_enum |-> None, description |-> None]

BasePathVariables == Some([n \in {"basePath"} |-> ServerVariable("v2")])

TemplatedServer ==
    [url |-> <<"http", "://", "localhost", "/", "{basePath}">>, description |-> None,
     variables |-> BasePathVariables]
UnboundServer ==
    [url |-> <<"http", "://", "localhost", "/", "{version}">>, description |-> None,
     variables |-> BasePathVariables]
DefaultServer == Server(<<"/">>)

\* Option<Vec<Server>> of a document: absent, or a list of at most MaxServers
DocumentServers ==
    {None} \cup {Some(l) : l \in SeqsUpTo({LocalServer, PetstoreServer, EmptyUrlServer},
                                          MaxServers)}

\* the `servers` argument of a PathItem::to_client_request call
\* lists of servers whose url is a URI, no server next to itself, and two lists
\* with a server whose url is not
ArgumentServers ==
    {servers \in SeqsUpTo({LocalServer, PetstoreServer}, MaxServers) :
        \A i \in 1..(Len(servers) - 1) : servers[i] # servers[i + 1]}
    \cup {<<EmptyUrlServer>>, <<LocalServer, EmptyUrlServer>>}

Parameter(name, location) == [name |-> name, location |-> location, required |-> None]
RequiredParameter(name, location, required) ==
    [name |-> name, location |-> location, required |-> Some(required)]

Operation(servers, parameters) ==
    [servers |-> servers, parameters |-> parameters, request_body |-> None]

PlainOperation == Operation(None, None)

\* an operation with a request body given inline
BodyOperation == [PlainOperation EXCEPT !.request_body = Some(Inline("application/json"))]

OperationPool ==
    { PlainOperation,
      Operation(Some(<<>>), None),
      Operation(Some(<<OpServer>>), None),
      Operation(None, Some(<<Parameter("limit", "query"), Parameter("limit", "query")>>)) }

\* a path item with the operations ops (a function from methods to operations)
PathItem(ops, servers, parameters) ==
    LET slot(m) == IF m \in DOMAIN ops THEN Some(ops[m]) ELSE None
    IN  [get |-> slot("GET"), put |-> slot("PUT"), post |-> slot("POST"),
         delete |-> slot("DELETE"), options |-> slot("OPTIONS"), head |-> slot("HEAD"),
         patch |-> slot("PATCH"), trace |-> slot("TRACE"),
         servers |-> servers, parameters |-> parameters]

\* any at most MaxOps methods declared, no override anywhere
PlainPathItems ==
    { PathItem([m \in S |-> PlainOperation], None, None) :
        S \in {T \in SUBSET MethodSet : Cardinality(T) <= MaxOps} }

\* get and/or post declared, with and without overrides on the path and the operations
OverridePathItems ==
    { PathItem(ops, servers, None) :
        ops \in UNION {[S -> OperationPool] : S \in (SUBSET {"GET", "POST"}) \ {{}}},
        servers \in {None, Some(<<>>), Some(<<AltServer>>)} }

\* get and/or post declared, with parameters on the path item and on the operations:
\* a header the operation overrides, a header and a query parameter it does not
ParameterPathItems ==
    { PathItem(ops, None, parameters) :
        ops \in UNION {[S -> { PlainOperation,
                               Operation(None, Some(<<RequiredParameter("X-Trace", "header",
                                                                        TRUE)>>)),
                               Operation(None, Some(<<Parameter("X-Auth", "header")>>)),
                               BodyOperation }] :
                         S \in (SUBSET {"GET", "POST"}) \ {{}}},
        parameters \in { None,
                         Some(<<RequiredParameter("X-Trace", "header", FALSE),
                                Parameter("X-Tenant", "header"),
                                Parameter("limit", "query")>>) } }

PetsPathItem == PathItem([m \in {"GET", "POST"} |-> PlainOperation], None, None)

\* path maps of one entry, over every generated path item
SinglePathMaps ==
    {[k \in {"/pets"} |-> item] :
        item \in PlainPathItems \cup OverridePathItems \cup ParameterPathItems}

\* the empty map and maps of two entries
FewPathMaps ==
    {<<>>}
    \cup {[k \in {"/pets", "/pets/{petId}"} |-> IF k = "/pets" THEN a ELSE b] :
            a \in {PetsPathItem, PathItem(<<>>, None, None)},
            b \in {PathItem([m \in {"GET"} |-> PlainOperation], Some(<<AltServer>>), None),
                   PathItem([m \in {"GET", "DELETE"} |-> PlainOperation], None, None)}}

Digit(n) == DigitChars[n + 1]
VersionString(major, minor, patch) ==
    <<Digit(major), ".", Digit(minor), ".", Digit(patch)>>

OpenapiStrings ==
    {VersionString(a, b, c) : a \in 2..4, b \in 0..1, c \in {0, 3}}
    \cup {VersionString(a, b, c) \o <<"-", "p", "r", "e">> :
            a \in 2..4, b \in 0..1, c \in {0, 3}}
    \cup {<<Digit(a), ".", "0">> : a \in 2..4}
    \cup { <<>>,
           <<"3">>,
           <<"v", "3", ".", "0", ".", "0">>,
           <<"3", ".", "0", "1", ".", "0">>,
           <<"3", ".", "1", "0", ".", "0">>,
           <<"3", ".", ".", "0">>,
           <<"3", ".", "0", ".", "0", ".", "0">>,
           <<"3", ".", "0", ".", "0", "-">> }

Document(openapi, servers, paths) ==
    [openapi |-> openapi, servers |-> servers, paths |-> paths, components |-> None]

\* every openapi string, on the petstore-like document with and without servers
VersionDocuments ==
    { Document(o, s, [k \in {"/pets"} |-> PetsPathItem]) :
        o \in OpenapiStrings, s \in {None, Some(<<LocalServer>>)} }

\* every server list, under a supported version, on a few path maps
ServerDocuments ==
    { Document(VersionString(3, 0, 0), s, p) : s \in DocumentServers, p \in FewPathMaps }

\* every generated path item, under a supported version, on a few server lists
PathDocuments ==
    { Document(VersionString(3, 0, 0), Some(l), p) :
        l \in {<<>>, <<LocalServer>>, <<LocalServer, PetstoreServer>>},
        p \in SinglePathMaps }

\* servers with placeholders, under a supported version, on the petstore-like paths
VariableDocuments ==
    { Document(VersionString(3, 0, 0), Some(l), [k \in {"/pets"} |-> PetsPathItem]) :
        l \in {<<TemplatedServer>>, <<UnboundServer>>, <<LocalServer, TemplatedServer>>} }

Documents == VersionDocuments \cup ServerDocuments \cup PathDocuments \cup VariableDocuments

\* documents for the calls on servers and operations: versions that pass, fail the
\* range and fail to parse; servers absent, usable and unusable; with and without
\* servers on the path item and on the operation
CallDocuments ==
    { Document(o, s, [k \in {"/pets"} |-> item]) :
        o \in {VersionString(3, 0, 0), VersionString(4, 0, 0), <<"3">>},
        s \in {None, Some(<<LocalServer>>), Some(<<LocalServer, EmptyUrlServer>>)},
        item \in {PetsPathItem,
                  PathItem([m \in {"GET"} |-> Operation(Some(<<OpServer>>), None)],
                           Some(<<AltServer>>), None)} }

\* documents for the resolver: no components at all, or any map of at most
\* MaxComponents named schemas, each an inline schema or a reference to a schema
\* name, along with one inline parameter
ComponentNames == <<"A", "B", "C", "D">>
SchemaNames == {ComponentNames[i] : i \in 1..MaxComponents}

SchemaComponents ==
    {Inline("y"), Inline("z")} \cup {Reference(Pointer("schemas", n)) : n \in SchemaNames}

ComponentMaps ==
    { [kind \in {"schemas", "parameters"} |->
          IF kind = "schemas" THEN schemas
          ELSE [n \in {"P"} |-> Inline("p")]] :
        schemas \in UNION {[S -> SchemaComponents] : S \in SUBSET SchemaNames} }

ResolveDocuments ==
    { [Document(VersionString(3, 0, 0), Some(<<LocalServer>>),
                [k \in {"/pets"} |-> PetsPathItem])
          EXCEPT !.components = c] :
        c \in {None} \cup {Some(m) : m \in ComponentMaps} }

\* documents whose named schemas refer to themselves or to each other in a cycle:
\* an openapi string that passes and one that does not parse, servers absent and
\* present, and every map of schemas with a cycle in it
CyclicDocuments ==
    { [Document(o, s, [k \in {"/pets"} |-> PetsPathItem]) EXCEPT !.components = Some(m)] :
        o \in {VersionString(3, 0, 0), <<"3">>},
        s \in {None, Some(<<LocalServer>>), Some(<<LocalServer, PetstoreServer>>)},
        m \in {c \in ComponentMaps :
                  \E name \in DOMAIN c["schemas"] :
                      RefersInCycle(c["schemas"], name, {})} }

\* what is handed to the resolver
ResolveInputs ==
    {Inline("x")}
    \cup {Reference(Pointer("schemas", n)) : n \in SchemaNames}
    \cup {Reference(Pointer("parameters", "P")),
          Reference(Pointer("parameters", "A")),
          Reference(Pointer("responses", "A"))}

(***************************************************************************)
(* The state machine: a document is constructed once and its methods are   *)
(* then called in any order, any number of times.                          *)
(***************************************************************************)
NoBuilders == [called |-> FALSE, path |-> "", servers |-> <<>>, value |-> <<>>]
NoBuilder == [on |-> "", url |-> <<>>, given |-> ClientRequest_build,
              value |-> ClientRequest_build]

ListedServers(o) == IF IsSome(o) THEN {Unwrap(o)[i] : i \in 1..Len(Unwrap(o))} ELSE {}

ServersOf(d) ==
    ListedServers(d.servers)
    \cup UNION {ListedServers(d.paths[k].servers) : k \in DOMAIN d.paths}
    \cup UNION {UNION {ListedServers(Unwrap(Slot(d.paths[k], m)).servers) :
                         m \in DeclaredMethods(d.paths[k])} : k \in DOMAIN d.paths}

\* the crates are fixed by the build; they matter to a document only when a
\* server url of it has a placeholder
Builds(d) ==
    IF \E server \in ServersOf(d) : HasPlaceholder(server.url)
    THEN {"rejected", "kept", "encoded"}
    ELSE {"rejected"}

Untouched ==
    /\ version_result = NotCalled
    /\ client_requests = NotCalled
    /\ previous_requests = NotCalled
    /\ builders = NoBuilders
    /\ last_builder = NoBuilder
    /\ resolution = NoResolution

Init ==
    /\ doc \in Documents
    /\ Untouched
    /\ uri_braces \in Builds(doc)

ValidateVersion ==
    /\ version_result' = validate_version(doc)
    /\ UNCHANGED <<doc, client_requests, previous_requests, builders, last_builder,
                   resolution, uri_braces>>

\* a call that moves the server list out of the document
SpecToClientRequest_taking ==
    /\ client_requests' = Spec_to_client_request(doc)
    /\ previous_requests' = client_requests
    /\ doc' = [doc EXCEPT !.servers = None]
    /\ UNCHANGED <<version_result, builders, last_builder, resolution, uri_braces>>

\* a call that pushes onto the vector the call before it filled
SpecToClientRequest_accumulating ==
    /\ client_requests' =
           LET now == Spec_to_client_request(doc)
           IN  IF now.tag = "Ok" /\ client_requests.tag = "Ok"
               THEN OkValue(client_requests.value \o now.value)
               ELSE now
    /\ previous_requests' = client_requests
    /\ UNCHANGED <<doc, version_result, builders, last_builder, resolution, uri_braces>>

\* the vector of requests is a local of the call (spec.rs:31): each call starts empty
SpecToClientRequest ==
    /\ client_requests' = Spec_to_client_request(doc)
    /\ previous_requests' = client_requests
    /\ UNCHANGED <<doc, version_result, builders, last_builder, resolution, uri_braces>>

PathItemToClientRequest ==
    \E path \in DOMAIN doc.paths, servers \in ArgumentServers :
        /\ builders' = [called |-> TRUE, path |-> path, servers |-> servers,
                        value |-> PathItem_to_client_request(doc.paths[path], servers)]
        /\ UNCHANGED <<doc, version_result, client_requests, previous_requests,
                       last_builder,
                       resolution, uri_braces>>

Next ==
    \/ ValidateVersion
    \/ SpecToClientRequest
    \/ PathItemToClientRequest

Spec == Init /\ [][Next]_vars

(***************************************************************************)
(* The calls on the parts of a document: Server::to_client_request on any  *)
(* server of it and Operation::to_client_request on any operation of it,   *)
(* each with a fresh builder or one whose method is already set.           *)
(***************************************************************************)
\* builders a caller may hand in: fresh, with a method set, with a method and a URI
\* set, and one whose earlier uri call failed
BuilderInputs ==
    {ClientRequest_build,
     builder_method(ClientRequest_build, "POST"),
     builder_method(builder_uri(ClientRequest_build, PetstoreServer.url), "PUT"),
     builder_uri(ClientRequest_build, <<>>)}

ServerToClientRequest ==
    \E server \in ServersOf(doc), b \in BuilderInputs :
        /\ last_builder' = [on |-> "Server", url |-> server.url, given |-> b,
                            value |-> Server_to_client_request(server, b)]
        /\ UNCHANGED <<doc, version_result, client_requests, previous_requests,
                       builders, resolution, uri_braces>>

OperationToClientRequest ==
    \E k \in DOMAIN doc.paths, b \in BuilderInputs :
        \E m \in DeclaredMethods(doc.paths[k]) :
            /\ last_builder' = [on |-> "Operation", url |-> <<>>, given |-> b,
                                value |-> Operation_to_client_request(
                                              Unwrap(Slot(doc.paths[k], m)), b)]
            /\ UNCHANGED <<doc, version_result, client_requests, previous_requests,
                           builders, resolution, uri_braces>>

InitCalls ==
    /\ doc \in CallDocuments
    /\ Untouched
    /\ uri_braces \in Builds(doc)

NextCalls ==
    \/ ValidateVersion
    \/ SpecToClientRequest
    \/ PathItemToClientRequest
    \/ ServerToClientRequest
    \/ OperationToClientRequest

SpecCalls == InitCalls /\ [][NextCalls]_vars

(***************************************************************************)
(* Reference resolution against the components of a document: a resolve    *)
(* call starts when none is under way, and runs one iteration at a time.   *)
(* The resolver is a synchronous loop, so a resolution under way always    *)
(* gets its next iteration: weak fairness of ResolveStep.                  *)
(***************************************************************************)
StartResolve ==
    /\ resolution.pc # "running"
    /\ \E input \in ResolveInputs : resolution' = resolve_start(resolution, input)
    /\ UNCHANGED <<doc, version_result, client_requests, previous_requests, builders,
                   last_builder, uri_braces>>

ResolveStep ==
    /\ resolution.pc = "running"
    /\ resolution' = resolve_step(ComponentsOf(doc), resolution)
    /\ UNCHANGED <<doc, version_result, client_requests, previous_requests, builders,
                   last_builder, uri_braces>>

InitResolve ==
    /\ doc \in ResolveDocuments
    /\ Untouched
    /\ uri_braces \in Builds(doc)

NextResolve ==
    \/ StartResolve
    \/ ResolveStep

SpecResolve == InitResolve /\ [][NextResolve]_vars

FairSpecResolve == SpecResolve /\ WF_vars(ResolveStep)

\* the calls of validation and synthesis on a document with cyclic schemas
InitCyclic ==
    /\ doc \in CyclicDocuments
    /\ Untouched
    /\ uri_braces \in Builds(doc)

NextCyclic ==
    \/ ValidateVersion
    \/ SpecToClientRequest
    \/ PathItemToClientRequest

SpecCyclic == InitCyclic /\ [][NextCyclic]_vars

(***************************************************************************)
(* Notions the properties below are stated in                              *)
(***************************************************************************)
IsNonEmptyList(o) == IsSome(o) /\ Unwrap(o) # <<>>

\* effective server lists by the override precedence operation > path > document
EffectiveDocumentServers(d) ==
    IF IsNonEmptyList(d.servers) THEN Unwrap(d.servers) ELSE <<DefaultServer>>

EffectivePathServers(item, documentServers) ==
    IF IsNonEmptyList(item.servers) THEN Unwrap(item.servers) ELSE documentServers

EffectiveOperationServers(op, pathServers) ==
    IF IsNonEmptyList(op.servers) THEN Unwrap(op.servers) ELSE pathServers

\* the merged parameter list of an operation: path parameters that the operation
\* does not override by (name, location), then the operation's own
SameParameter(p, q) == p.name = q.name /\ p.location = q.location

MergedParameters(item, op) ==
    LET own == IF IsSome(op.parameters) THEN Unwrap(op.parameters) ELSE <<>>
        shared == IF IsSome(item.parameters) THEN Unwrap(item.parameters) ELSE <<>>
        overridden(p) == \E i \in 1..Len(own) : SameParameter(own[i], p)
    IN  SelectSeq(shared, LAMBDA p : ~overridden(p)) \o own

HasDuplicateParameter(item, op) ==
    LET merged == MergedParameters(item, op)
    IN  \E i, j \in 1..Len(merged) : i # j /\ SameParameter(merged[i], merged[j])

RECURSIVE SetToSeq(_)
SetToSeq(S) ==
    IF S = {} THEN <<>>
    ELSE LET x == CHOOSE y \in S : TRUE IN <<x>> \o SetToSeq(S \ {x})

\* the number of templates the override rules give one path item
ExpectedPathCount(item, documentServers) ==
    LET pathServers == EffectivePathServers(item, documentServers)
        ofMethod(m) ==
            IF IsNone(Slot(item, m)) THEN 0
            ELSE IF HasDuplicateParameter(item, Unwrap(Slot(item, m))) THEN 0
            ELSE Len(EffectiveOperationServers(Unwrap(Slot(item, m)), pathServers))
    IN  SumSeq([i \in 1..Len(Methods) |-> ofMethod(Methods[i])])

\* the number of templates the override rules give a document
ExpectedTemplateCount(d) ==
    LET keys == SetToSeq(DOMAIN d.paths)
    IN  SumSeq([i \in 1..Len(keys) |->
                   ExpectedPathCount(d.paths[keys[i]], EffectiveDocumentServers(d))])

\* a builder or request is built from a server when it carries that server's URI
BuiltFrom(b, server) == ParseUri(server.url).ok /\ b.uri = ParseUri(server.url)
BuiltFromOneOf(b, servers) == \E i \in 1..Len(servers) : BuiltFrom(b, servers[i])

WithMethod(bs, m) == SelectSeq(bs, LAMBDA b : b.method = m)

\* semantic-version precedence of major.minor.patch, and the supported range
\* >=3.0.0, <4.0.0; a range whose comparators carry no pre-release tag admits
\* no pre-release version
CoreLess(a, b) ==
    \/ a.major < b.major
    \/ a.major = b.major /\ a.minor < b.minor
    \/ a.major = b.major /\ a.minor = b.minor /\ a.patch < b.patch

Version(major, minor, patch) ==
    [major |-> major, minor |-> minor, patch |-> patch, pre |-> <<>>]

SatisfiesSupportedRange(v) ==
    /\ ~CoreLess(v, Version(3, 0, 0))
    /\ CoreLess(v, Version(4, 0, 0))
    /\ v.pre = <<>>

VersionCalled == version_result.tag # "NotCalled"
SynthesisCalled == client_requests.tag # "NotCalled"

(***************************************************************************)
(* C1: for every valid document the number of templates synthesis returns  *)
(* is the sum, over the paths, of declared method slots times effective    *)
(* servers of the operation, less the operations skipped for a duplicate   *)
(* parameter.                                                              *)
(***************************************************************************)
C1_TemplateCount ==
    (client_requests.tag = "Ok" /\ validate_version(doc).tag = "Ok")
        => Len(client_requests.value) = ExpectedTemplateCount(doc)

(***************************************************************************)
(* C2: an operation with a non-empty `servers` list of its own gets one    *)
(* builder per server of that list and none from the list handed down;     *)
(* an operation without one gets them from the path-level effective        *)
(* servers.                                                                *)
(***************************************************************************)
C2_OperationServersOverride ==
    builders.called =>
        LET item == doc.paths[builders.path]
        IN  \A m \in DeclaredMethods(item) :
                LET op == Unwrap(Slot(item, m))
                    mine == WithMethod(builders.value, m)
                    effective ==
                        EffectiveOperationServers(
                            op, EffectivePathServers(item, builders.servers))
                IN  /\ Len(mine) = Len(effective)
                    /\ \A i \in 1..Len(mine) : BuiltFrom(mine[i], effective[i])

(***************************************************************************)
(* C3: when the document-level servers are handed to a path item whose     *)
(* own `servers` list is non-empty, an operation of it without an override *)
(* gets its builders from the path item's servers; when the path item has  *)
(* no list, from the document-level servers.                               *)
(***************************************************************************)
C3_PathServersOverride ==
    (builders.called /\ builders.servers = EffectiveDocumentServers(doc)) =>
        LET item == doc.paths[builders.path]
            effective == EffectivePathServers(item, EffectiveDocumentServers(doc))
        IN  \A m \in DeclaredMethods(item) :
                ~IsNonEmptyList(Unwrap(Slot(item, m)).servers) =>
                    LET mine == WithMethod(builders.value, m)
                    IN  /\ Len(mine) = Len(effective)
                        /\ \A i \in 1..Len(mine) : BuiltFrom(mine[i], effective[i])

(***************************************************************************)
(* C4: a document whose `servers` is absent or empty is synthesized with   *)
(* the single server "/" as its server list, and templates are still       *)
(* emitted for its operations.                                             *)
(***************************************************************************)
C4_DefaultServer ==
    (SynthesisCalled /\ ~IsNonEmptyList(doc.servers)) =>
        /\ client_requests.tag = "Ok"
        /\ \A i \in 1..Len(client_requests.value) :
               BuiltFrom(client_requests.value[i], DefaultServer)
        /\ (ExpectedTemplateCount(doc) > 0 => client_requests.value # <<>>)

(***************************************************************************)
(* C5: synthesis returns the error NoServersDefined when the document's    *)
(* server list and every path-level and operation-level list are empty,    *)
(* and returns no other error.                                             *)
(***************************************************************************)
AllServerListsEmpty(d) ==
    /\ ~IsNonEmptyList(d.servers)
    /\ \A k \in DOMAIN d.paths :
           /\ ~IsNonEmptyList(d.paths[k].servers)
           /\ \A m \in DeclaredMethods(d.paths[k]) :
                  ~IsNonEmptyList(Unwrap(Slot(d.paths[k], m)).servers)

C5_NoServersDefined ==
    /\ (SynthesisCalled /\ AllServerListsEmpty(doc)) =>
           (client_requests.tag = "Err" /\ client_requests.error = "NoServersDefined")
    /\ client_requests.tag = "Err" => client_requests.error = "NoServersDefined"

(***************************************************************************)
(* C6: neither validate_version nor to_client_request panics, whatever     *)
(* the document.                                                           *)
(***************************************************************************)
C6_NoPanic ==
    /\ version_result.tag # "Panic"
    /\ client_requests.tag # "Panic"

(***************************************************************************)
(* C7: validate_version returns Ok with the parsed version for every       *)
(* `openapi` version that satisfies >=3.0.0, <4.0.0, "3.0.0" and "3.0.3"   *)
(* among them.                                                             *)
(***************************************************************************)
C7_SupportedVersionAccepted ==
    VersionCalled =>
        /\ \A a \in 2..4, b \in 0..1, c \in {0, 3} :
               (doc.openapi = VersionString(a, b, c)
                    /\ SatisfiesSupportedRange(Version(a, b, c)))
                   => version_result = OkVersion(Version(a, b, c))
        /\ (VersionParse(doc.openapi).ok
                /\ SatisfiesSupportedRange(VersionParse(doc.openapi).version))
               => version_result = OkVersion(VersionParse(doc.openapi).version)

C7_Witness ==
    /\ doc.openapi = VersionString(3, 0, 3)
    /\ version_result = OkVersion(Version(3, 0, 3))

(***************************************************************************)
(* C8, as claimed: validate_version fails with UnsupportedVersion for      *)
(* every `openapi` value outside the supported range, "2.0" and "4.0.0"    *)
(* among them.                                                             *)
(***************************************************************************)
C8_Original ==
    (VersionCalled
        /\ ~(VersionParse(doc.openapi).ok
                /\ SatisfiesSupportedRange(VersionParse(doc.openapi).version)))
        => (version_result.tag = "Err"
                /\ version_result.error = "UnsupportedSpecFileVersion")

(***************************************************************************)
(* C8, amended: validate_version fails with UnsupportedVersion(found) for  *)
(* every `openapi` value that parses as a semantic version outside the     *)
(* supported range, "4.0.0" among them; "2.0", which is no semantic        *)
(* version, fails with the parse error instead.                            *)
(***************************************************************************)
C8_UnsupportedVersionRejected ==
    VersionCalled =>
        /\ \A a \in 2..4, b \in 0..1, c \in {0, 3} :
               (doc.openapi = VersionString(a, b, c)
                    /\ ~SatisfiesSupportedRange(Version(a, b, c)))
                   => version_result = ErrUnsupported(Version(a, b, c))
        /\ (VersionParse(doc.openapi).ok
                /\ ~SatisfiesSupportedRange(VersionParse(doc.openapi).version))
               => version_result = ErrUnsupported(VersionParse(doc.openapi).version)
        /\ doc.openapi = <<"2", ".", "0">> => version_result = ErrSemVer

C8_Witness ==
    /\ doc.openapi = VersionString(4, 0, 0)
    /\ version_result = ErrUnsupported(Version(4, 0, 0))

(***************************************************************************)
(* C9: an `openapi` string that is no semantic version, such as the empty  *)
(* string or one with fewer than three numeric components, makes           *)
(* validate_version return an error value, not panic.                      *)
(***************************************************************************)
C9_UnparsableVersionIsError ==
    VersionCalled =>
        /\ (doc.openapi = <<>> \/ Len(SplitOn(doc.openapi, ".")) < 3)
               => version_result.tag = "Err"
        /\ ~VersionParse(doc.openapi).ok => version_result = ErrSemVer

C9_Witness ==
    /\ doc.openapi = <<>>
    /\ version_result.tag = "Err"

(***************************************************************************)
(* C10: no request template is emitted for a document unless               *)
(* validate_version has succeeded on it first.                             *)
(***************************************************************************)
C10_VersionGate ==
    /\ (client_requests.tag = "Ok" /\ client_requests.value # <<>>)
           => version_result.tag = "Ok"
    /\ (builders.called /\ builders.value # <<>>) => version_result.tag = "Ok"

(***************************************************************************)
(* Notions of C11 and C12: the paths of a document in the order of its     *)
(* BTreeMap, a path template as url tokens, and the templates of one path  *)
(* item enumerated method by method, server by server.                     *)
(***************************************************************************)
PathOrder == <<"/pets", "/pets/{petId}">>

PathsInOrder(d) == SelectSeq(PathOrder, LAMBDA k : k \in DOMAIN d.paths)

PathTokens(k) ==
    CASE k = "/pets" -> <<"/", "pets">>
      [] k = "/pets/{petId}" -> <<"/", "pets", "/", "{petId}">>

\* a non-empty list of servers whose urls are all URIs
UsableServers(servers) ==
    servers # <<>> /\ \A i \in 1..Len(servers) : ParseUri(servers[i].url).ok

MethodAndUri(b) == [method |-> b.method, uri |-> b.uri]
MethodsAndUris(bs) == [i \in 1..Len(bs) |-> MethodAndUri(bs[i])]

MethodMajor(item, servers) ==
    Flatten([i \in 1..Len(Methods) |->
        IF IsNone(Slot(item, Methods[i])) THEN <<>>
        ELSE [j \in 1..Len(servers) |->
                 [method |-> Methods[i], uri |-> ParseUri(servers[j].url)]]])

(***************************************************************************)
(* C11: templates are emitted path by path in the order of the paths map,  *)
(* within a path method by method in the order GET, PUT, POST, DELETE,     *)
(* OPTIONS, HEAD, PATCH, TRACE, and within a method server by server.      *)
(***************************************************************************)
C11_WithinPathOrder ==
    (builders.called /\ UsableServers(builders.servers)) =>
        MethodsAndUris(builders.value)
            = MethodMajor(doc.paths[builders.path], builders.servers)

C11_EmissionOrder ==
    /\ C11_WithinPathOrder
    /\ client_requests.tag = "Ok" =>
           MethodsAndUris(client_requests.value)
               = Flatten([i \in 1..Len(PathsInOrder(doc)) |->
                     MethodMajor(doc.paths[PathsInOrder(doc)[i]], Unwrap(doc.servers))])

(***************************************************************************)
(* C12: the URL of every template is the server's URL followed by the path *)
(* template; servers [http://localhost:8000/v1] and /pets with get and     *)
(* post give exactly GET and POST http://localhost:8000/v1/pets.           *)
(***************************************************************************)
UrlOf(server, k) == ParseUri(server.url \o PathTokens(k))

C12_UrlIsServerThenPath ==
    /\ builders.called =>
           \A i \in 1..Len(builders.value) :
               \E j \in 1..Len(builders.servers) :
                   builders.value[i].uri = UrlOf(builders.servers[j], builders.path)
    /\ client_requests.tag = "Ok" =>
           \A i \in 1..Len(client_requests.value) :
               \E k \in DOMAIN doc.paths, j \in 1..Len(Unwrap(doc.servers)) :
                   client_requests.value[i].uri = UrlOf(Unwrap(doc.servers)[j], k)
    /\ (client_requests.tag = "Ok"
            /\ doc.servers = Some(<<LocalServer>>)
            /\ doc.paths = [k \in {"/pets"} |-> PetsPathItem]) =>
           MethodsAndUris(client_requests.value)
               = << [method |-> "GET", uri |-> UrlOf(LocalServer, "/pets")],
                    [method |-> "POST", uri |-> UrlOf(LocalServer, "/pets")] >>

C14_ModelReadOnly == [][doc' = doc]_vars

C14_Witness ==
    /\ version_result.tag = "Err"
    /\ client_requests.tag = "Panic"
    /\ builders.called
    /\ last_builder.on = "Server"
    /\ last_builder.value.err

(***************************************************************************)
(* Notions of C15 to C17: the headers a template gets from the header      *)
(* parameters of a parameter list, and the diagnostics a caller receives.  *)
(* Vec<ClientRequestBuilder> and Result<Vec<ClientRequest>> have no        *)
(* component for diagnostics: what is returned carries none.               *)
(***************************************************************************)
HeaderEntries(parameters) ==
    LET headers == SelectSeq(parameters, LAMBDA p : p.location = "header")
    IN  [i \in 1..Len(headers) |->
            [name |-> headers[i].name, required |-> headers[i].required]]

Diagnostics(returned) == <<>>

FaultyMethods(item) ==
    {m \in DeclaredMethods(item) : HasDuplicateParameter(item, Unwrap(Slot(item, m)))}

(***************************************************************************)
(* C15: the parameters in effect for an operation are the path item's      *)
(* overlaid by the operation's own, matched by (name, location): every     *)
(* builder of the operation carries the headers of exactly that list, the  *)
(* operation's version of an overridden header and every header of the     *)
(* path item that is not overridden.                                       *)
(***************************************************************************)
C15_EffectiveParameters ==
    builders.called =>
        LET item == doc.paths[builders.path]
        IN  \A i \in 1..Len(builders.value) :
                builders.value[i].method \in DeclaredMethods(item) =>
                    builders.value[i].headers
                        = HeaderEntries(MergedParameters(
                              item, Unwrap(Slot(item, builders.value[i].method))))

(***************************************************************************)
(* C16: an operation whose merged parameters repeat a (name, location)     *)
(* pair gets no builder and a DuplicateParameter diagnostic is returned    *)
(* for it; every other operation of the path item gets its builders.       *)
(***************************************************************************)
C16_DuplicateParameterSkipped ==
    builders.called =>
        LET item == doc.paths[builders.path]
        IN  /\ \A m \in FaultyMethods(item) : WithMethod(builders.value, m) = <<>>
            /\ FaultyMethods(item) # {} => Diagnostics(builders.value) # <<>>
            /\ \A m \in DeclaredMethods(item) \ FaultyMethods(item) :
                   Len(WithMethod(builders.value, m)) = Len(builders.servers)

(***************************************************************************)
(* C17: synthesis of a document with a faulty operation is not aborted:    *)
(* it returns Ok with the templates of the operations that are not faulty  *)
(* and with a non-empty list of diagnostics.                               *)
(***************************************************************************)
C17_PartialFailure ==
    (SynthesisCalled /\ IsNonEmptyList(doc.servers)
        /\ \E k \in DOMAIN doc.paths : FaultyMethods(doc.paths[k]) # {}) =>
        /\ client_requests.tag = "Ok"
        /\ Diagnostics(client_requests.value) # <<>>
        /\ \A k \in DOMAIN doc.paths :
               \A m \in DeclaredMethods(doc.paths[k]) \ FaultyMethods(doc.paths[k]) :
                   WithMethod(client_requests.value, m) # <<>>

(***************************************************************************)
(* Notions of C18 to C20: the component a pointer names in the document,   *)
(* read off the components map directly.                                   *)
(***************************************************************************)
Target(d, pointer) ==
    LET components == ComponentsOf(d)
    IN  IF pointer[3] \in DOMAIN components
        THEN IF pointer[4] \in DOMAIN components[pointer[3]]
             THEN Some(components[pointer[3]][pointer[4]])
             ELSE None
        ELSE None

IsComponentOf(o, tag) ==
    IsSome(o) /\ Unwrap(o).tag = tag

ResolveDone == resolution.pc = "done"

(***************************************************************************)
(* C18: resolving Inline(x) returns x without a lookup; resolving a        *)
(* reference whose target is an inline component y returns y; resolving    *)
(* the same thing twice in a row against the same components returns      *)
(* equal results.                                                          *)
(***************************************************************************)
C18_ResolveReturnsObject ==
    ResolveDone =>
        /\ resolution.input.tag = "Inline" =>
               /\ resolution.result = Resolved(resolution.input.object)
               /\ resolution.lookups = 0
        /\ (resolution.input.tag = "Reference"
              /\ IsComponentOf(Target(doc, resolution.input.pointer), "Inline")) =>
               resolution.result
                   = Resolved(Unwrap(Target(doc, resolution.input.pointer)).object)
        /\ (resolution.last.result.tag # "None"
              /\ resolution.last.input = resolution.input) =>
               resolution.result = resolution.last.result

C18_Witness ==
    /\ ResolveDone
    /\ resolution.input = Reference(Pointer("schemas", "B"))
    /\ resolution.result = Resolved("z")
    /\ resolution.last.input = resolution.input
    /\ IsComponentOf(Target(doc, Pointer("schemas", "A")), "Inline")
    /\ Target(doc, Pointer("schemas", "A")) # Target(doc, Pointer("schemas", "B"))

(***************************************************************************)
(* C19: resolving a reference whose <kind>/<name> is absent from the       *)
(* components ends with UnresolvedReference of that pointer, not with an   *)
(* object.                                                                 *)
(***************************************************************************)
C19_MissingTargetIsError ==
    (ResolveDone /\ resolution.input.tag = "Reference"
        /\ IsNone(Target(doc, resolution.input.pointer))) =>
        resolution.result = UnresolvedReference(resolution.input.pointer)

C19_Witness ==
    /\ ResolveDone
    /\ IsSome(doc.components)
    /\ resolution.input = Reference(Pointer("schemas", "B"))
    /\ IsNone(Target(doc, resolution.input.pointer))
    /\ resolution.result.tag = "UnresolvedReference"

(***************************************************************************)
(* C20: every resolution ends, with an object, UnresolvedReference or      *)
(* CyclicReference: a reference to a reference to an inline value returns  *)
(* that value, a reference to a reference to a missing target ends with    *)
(* UnresolvedReference of the missing pointer, and a cycle of two          *)
(* references ends with CyclicReference.                                   *)
(***************************************************************************)
SecondHop(d, input) ==
    IF input.tag = "Reference" /\ IsComponentOf(Target(d, input.pointer), "Reference")
    THEN Some(Unwrap(Target(d, input.pointer)).pointer)
    ELSE None

TwoHopCycle(d, input) ==
    /\ IsSome(SecondHop(d, input))
    /\ Unwrap(SecondHop(d, input)) # input.pointer
    /\ IsComponentOf(Target(d, Unwrap(SecondHop(d, input))), "Reference")
    /\ Unwrap(Target(d, Unwrap(SecondHop(d, input)))).pointer = input.pointer

C20_ChainsTerminate ==
    /\ (resolution.pc = "running") ~> ResolveDone
    /\ [](ResolveDone =>
            /\ resolution.result.tag \in {"Ok", "UnresolvedReference", "CyclicReference"}
            /\ TwoHopCycle(doc, resolution.input) =>
                   resolution.result.tag = "CyclicReference"
            /\ IsSome(SecondHop(doc, resolution.input)) =>
                   LET second == Unwrap(SecondHop(doc, resolution.input))
                   IN  /\ IsComponentOf(Target(doc, second), "Inline") =>
                              resolution.result
                                  = Resolved(Unwrap(Target(doc, second)).object)
                       /\ (IsNone(Target(doc, second)) /\ second # resolution.input.pointer)
                              => resolution.result = UnresolvedReference(second))

C20_Witness ==
    /\ ResolveDone
    /\ TwoHopCycle(doc, resolution.input)
    /\ resolution.result.tag = "CyclicReference"
    /\ Len(resolution.result.pointers) = 3

(***************************************************************************)
(* Notions of C21: the url of a server with every placeholder that has an  *)
(* entry in the server's variables replaced by the entry's default.        *)
(***************************************************************************)
PlaceholderName(token) ==
    CASE token = "{basePath}" -> "basePath"
      [] token = "{version}" -> "version"
      [] token = "{petId}" -> "petId"

Substituted(server) ==
    LET bound(token) ==
            /\ token \in Placeholders
            /\ IsSome(server.variables)
            /\ PlaceholderName(token) \in DOMAIN Unwrap(server.variables)
    IN  [i \in 1..Len(server.url) |->
            IF bound(server.url[i])
            THEN Unwrap(server.variables)[PlaceholderName(server.url[i])].default
            ELSE server.url[i]]

(***************************************************************************)
(* C21: when every server url of the document is a URI once its variables  *)
(* are substituted, synthesis succeeds and the URI of each template is the *)
(* server's url with each placeholder that has an entry in                 *)
(* `server.variables` replaced by the entry's default, a placeholder       *)
(* without an entry being left in place.                                   *)
(***************************************************************************)
C21_ServerVariablesSubstituted ==
    (SynthesisCalled /\ IsSome(doc.servers)
        /\ \A i \in 1..Len(Unwrap(doc.servers)) :
               ParseUri(Substituted(Unwrap(doc.servers)[i])).ok) =>
        /\ client_requests.tag = "Ok"
        /\ Len(client_requests.value) = Len(Unwrap(doc.servers))
        /\ \A i \in 1..Len(client_requests.value) :
               client_requests.value[i].uri
                   = ParseUri(Substituted(Unwrap(doc.servers)[i]))

(***************************************************************************)
(* C22: a {name} placeholder of a path template without a path parameter   *)
(* for it does not stop synthesis: the operations of that path get their   *)
(* templates, and the URI path of each ends with the path template, the    *)
(* placeholder in it unchanged.                                            *)
(***************************************************************************)
EndsWith(tokens, suffix) ==
    /\ Len(suffix) <= Len(tokens)
    /\ SubSeq(tokens, Len(tokens) - Len(suffix) + 1, Len(tokens)) = suffix

C22_UnmatchedPlaceholderKept ==
    /\ (builders.called /\ HasPlaceholder(PathTokens(builders.path))
           /\ UsableServers(builders.servers)
           /\ DeclaredMethods(doc.paths[builders.path]) # {}) =>
           /\ builders.value # <<>>
           /\ \A i \in 1..Len(builders.value) :
                  /\ ~builders.value[i].err
                  /\ EndsWith(builders.value[i].uri.path, PathTokens(builders.path))
    /\ (SynthesisCalled /\ IsSome(doc.servers) /\ UsableServers(Unwrap(doc.servers))) =>
           /\ client_requests.tag = "Ok"
           /\ \A k \in DOMAIN doc.paths :
                  (HasPlaceholder(PathTokens(k)) /\ DeclaredMethods(doc.paths[k]) # {}) =>
                      \E i \in 1..Len(client_requests.value) :
                          EndsWith(client_requests.value[i].uri.path, PathTokens(k))

(***************************************************************************)
(* C23: every builder of an operation carries the headers of the           *)
(* operation's effective header parameters, and a body exactly when the    *)
(* operation declares a request body.                                      *)
(***************************************************************************)
C23_HeadersAndBody ==
    builders.called =>
        LET item == doc.paths[builders.path]
        IN  \A i \in 1..Len(builders.value) :
                builders.value[i].method \in DeclaredMethods(item) =>
                    LET op == Unwrap(Slot(item, builders.value[i].method))
                    IN  /\ builders.value[i].headers
                               = HeaderEntries(MergedParameters(item, op))
                        /\ builders.value[i].body # "Empty" <=> IsSome(op.request_body)

UriOf(scheme, host, port, path) ==
    [ok |-> TRUE, scheme |-> Some(scheme), host |-> Some(host), port |-> port,
     path |-> path]

KnownServers == {LocalServer, PetstoreServer, AltServer}

UriComponents(server) ==
    CASE server = LocalServer -> UriOf("http", "localhost", Some("8000"), <<"/", "v1">>)
      [] server = PetstoreServer ->
             UriOf("http", "petstore.swagger.io", None, <<"/", "v1">>)
      [] server = AltServer -> UriOf("https", "alt.example.com", None, <<"/">>)

WithoutPaths(d) == [d EXCEPT !.paths = <<>>]

OnlyUriChanged(given, returned) ==
    /\ returned.method = given.method
    /\ returned.headers = given.headers
    /\ returned.body = given.body

C26_ServerSetsUri ==
    last_builder.on = "Server" =>
        LET given == last_builder.given
            returned == last_builder.value
            parsed == ParseUri(last_builder.url)
        IN  /\ OnlyUriChanged(given, returned)
            /\ (parsed.ok /\ ~given.err) =>
                   /\ builder_finish(returned).ok
                   /\ builder_finish(returned).request.uri = parsed
                   /\ builder_finish(returned).request.method = given.method
                   /\ \A server \in KnownServers :
                          last_builder.url = server.url =>
                              returned.uri = UriComponents(server)
            /\ (~parsed.ok \/ given.err) =>
                   /\ ~builder_finish(returned).ok
                   /\ returned.uri = given.uri

\* C26 as stated: the finished request succeeds with the components of the url
C26_Original ==
    last_builder.on = "Server" =>
        /\ OnlyUriChanged(last_builder.given, last_builder.value)
        /\ builder_finish(last_builder.value).ok
        /\ builder_finish(last_builder.value).request.uri = ParseUri(last_builder.url)

C26_Witness ==
    /\ last_builder.on = "Server"
    /\ last_builder.url = LocalServer.url
    /\ last_builder.given.method = "POST"
    /\ builder_finish(last_builder.value).ok
    /\ last_builder.value.uri.port = Some("8000")

(***************************************************************************)
(* C29: Operation::to_client_request returns the builder it was given: the *)
(* URI, the method, the headers and the body are those it had, and it      *)
(* finishes to a request exactly when it did before the call.              *)
(***************************************************************************)
C29_OperationReturnsBuilder ==
    last_builder.on = "Operation" =>
        /\ last_builder.value = last_builder.given
        /\ last_builder.value.uri = last_builder.given.uri
        /\ last_builder.value.method = last_builder.given.method
        /\ builder_finish(last_builder.given).ok => builder_finish(last_builder.value).ok

C29_Witness ==
    /\ last_builder.on = "Operation"
    /\ last_builder.given.method = "PUT"
    /\ last_builder.given.uri = UriComponents(PetstoreServer)
    /\ builder_finish(last_builder.value).ok

(***************************************************************************)
(* C30: on a document whose named schemas refer to themselves or to each   *)
(* other in a cycle, validate_version and the to_client_request of Spec    *)
(* and PathItem return what they return on the same document without its   *)
(* components, with every builder of every declared method and server, and *)
(* each schema of a cycle is held in the document as a reference with its  *)
(* pointer, not as the object the pointer leads to.                        *)
(***************************************************************************)
WithoutComponents(d) == [d EXCEPT !.components = None]

SchemasOf(d) == Unwrap(d.components)["schemas"]

====
